---- MODULE Spec2Model ----
(***************************************************************************)
(* A model of the drg command line client: the command router of main,     *)
(* the device handlers of devices.rs and the argument helpers of           *)
(* arguments.rs.  One behaviour is one CLI invocation against a registry   *)
(* and a persisted configuration file, with the clock and other clients    *)
(* of the registry moving around it.                                       *)
(***************************************************************************)
EXTENDS Integers, Sequences, FiniteSets, TLC

(***************************************************************************)
(* Bounds of the model.                                                    *)
(***************************************************************************)
\* clock ticks (seconds passing while the program waits)
MaxTime == 1
\* modifications of the registry by other clients
MaxExternal == 1

(***************************************************************************)
(* Option values: value_of() and default_app are Option<&str>.             *)
(***************************************************************************)
None == [some |-> FALSE]
Some(x) == [some |-> TRUE, v |-> x]

(***************************************************************************)
(* JSON.  A text is a sequence of tokens; a serde_json::Value is a tagged  *)
(* record.  Objects are maps from keys to values.                          *)
(***************************************************************************)
Num(n) == [t |-> "num", n |-> n]
Str(s) == [t |-> "str", s |-> s]
Obj(f) == [t |-> "obj", f |-> f]
EmptyMap == <<>>
EmptyObj == Obj(EmptyMap)

\* the strings of the model, in the byte order a BTreeMap iterates them
KeyOrder == <<"a1", "a2", "application", "d1", "d2", "evil", "metadata", "name", "spec", "temp">>
StringPool == {KeyOrder[i] : i \in 1..Len(KeyOrder)}
NumToks == {"1", "2"}
Quote(s) == "\"" \o s \o "\""
IsStringTok(tok) == \E s \in StringPool : Quote(s) = tok
Unquote(tok) == CHOOSE s \in StringPool : Quote(s) = tok
SortedKeys(S) == SelectSeq(KeyOrder, LAMBDA k : k \in S)

RECURSIVE to_string(_)
RECURSIVE Members(_, _)
\* serde_json's Display of a Value: compact, object keys in map order
to_string(v) ==
  CASE v.t = "num" -> <<v.n>>
    [] v.t = "str" -> <<Quote(v.s)>>
    [] v.t = "obj" -> <<"{">> \o Members(v.f, SortedKeys(DOMAIN v.f)) \o <<"}">>
Members(f, ks) ==
  IF ks = <<>> THEN <<>>
  ELSE <<Quote(Head(ks)), ":">> \o to_string(f[Head(ks)])
       \o (IF Len(ks) > 1 THEN <<",">> ELSE <<>>)
       \o Members(f, Tail(ks))

RECURSIVE SkipWs(_, _)
SkipWs(text, i) ==
  IF i <= Len(text) /\ text[i] = " " THEN SkipWs(text, i + 1) ELSE i

ParseFail == [ok |-> FALSE]
ParseOk(v, i) == [ok |-> TRUE, v |-> v, i |-> i]
At(text, i, tok) == i <= Len(text) /\ text[i] = tok

RECURSIVE ParseValue(_, _)
RECURSIVE ParseMembers(_, _, _, _)
\* serde_json's parser, one value starting at token i
ParseValue(text, i) ==
  LET j == SkipWs(text, i) IN
  IF j > Len(text) THEN ParseFail
  ELSE IF text[j] \in NumToks THEN ParseOk(Num(text[j]), j + 1)
  ELSE IF IsStringTok(text[j]) THEN ParseOk(Str(Unquote(text[j])), j + 1)
  ELSE IF text[j] = "{" THEN ParseMembers(text, j + 1, EmptyMap, TRUE)
  ELSE ParseFail
\* the members of an object after its opening brace; a repeated key keeps
\* the last value
ParseMembers(text, i, acc, first) ==
  LET j == SkipWs(text, i) IN
  IF first /\ At(text, j, "}") THEN ParseOk(Obj(acc), j + 1)
  ELSE IF j > Len(text) \/ ~IsStringTok(text[j]) THEN ParseFail
  ELSE LET c == SkipWs(text, j + 1) IN
       IF ~At(text, c, ":") THEN ParseFail
       ELSE LET r == ParseValue(text, c + 1) IN
            IF ~r.ok THEN ParseFail
            ELSE LET e == SkipWs(text, r.i)
                     acc2 == [k \in DOMAIN acc \cup {Unquote(text[j])} |->
                                IF k = Unquote(text[j]) THEN r.v ELSE acc[k]]
                 IN IF At(text, e, ",") THEN ParseMembers(text, e + 1, acc2, FALSE)
                    ELSE IF At(text, e, "}") THEN ParseOk(Obj(acc2), e + 1)
                    ELSE ParseFail

\* serde_json::from_str: one value and nothing but white space after it
from_str(text) ==
  LET r == ParseValue(text, 1) IN
  IF r.ok /\ SkipWs(text, r.i) = Len(text) + 1 THEN [ok |-> TRUE, v |-> r.v]
  ELSE [ok |-> FALSE]

(***************************************************************************)
(* The values of the model.                                                *)
(***************************************************************************)
Apps == {"a1", "a2"}
Ids == {"d1", "d2"}
Base == "https://registry/"
Verbs == {"create", "delete", "edit", "get"}
Resources == {"device", "app"}
Other_commands == {"login", "token", "version", "send"}

\* --data arguments: an empty object, a plain payload, a payload that
\* names the metadata keys itself, and a text that is no JSON
DataPlain == <<"{", Quote("temp"), ":", "1", "}">>
DataMeta == <<"{", Quote("metadata"), ":", "{", Quote("name"), ":", Quote("evil"), "}", ",",
              Quote("spec"), ":", "2", "}">>
DataBad == <<"{", Quote("temp")>>
DataTexts == {DataPlain, DataMeta, DataBad}

\* bodies the registry holds: key order and white space are the server's
Doc0 == <<"{", " ", Quote("spec"), ":", "{", "}", ",", " ", Quote("metadata"), ":", "{",
          Quote("name"), ":", Quote("d1"), "}", " ", "}">>
Doc1 == <<"{", Quote("metadata"), ":", "{", Quote("name"), ":", Quote("d1"), "}", ",",
          Quote("spec"), ":", "{", Quote("temp"), ":", "2", "}", "}">>
\* what the user may leave in the editor besides the text as presented
EditedText == <<"{", Quote("metadata"), ":", "{", Quote("name"), ":", Quote("d1"), "}", ",",
                Quote("spec"), ":", "{", Quote("temp"), ":", "1", "}", "}">>
BrokenText == <<"{", Quote("metadata"), ":">>

(***************************************************************************)
(* State.                                                                  *)
(***************************************************************************)
VARIABLES
  stored,     \* the persisted configuration file: None or Some(Config)
  registry,   \* the registry: item url -> None or Some(body text)
  now,        \* the clock
  issued,     \* access tokens the identity provider has issued
  ext,        \* modifications made by other clients
  args,       \* the parsed command line of the invocation (ArgMatches)
  pc,         \* the position of main
  config,     \* main's `config`: None until it is assigned
  verified,   \* what verify_token_validity returned to main
  call,       \* the handler main called and its parameters
  fetched,    \* edit's `body`
  insert,     \* edit's `insert`
  trace,      \* what the invocation did and what happened around it, in order
  exit_code,  \* None while running, Some(code) once the process ended
  stderr      \* the kind of message the process ended with

vars == <<stored, registry, now, issued, ext, args, pc, config, verified, call,
          fetched, insert, trace, exit_code, stderr>>

\* process exit codes
ExitOk == 0
ExitMainErr == 1
ExitFetch == 2
ExitCrud == 3
ExitPanic == 101
\* lifetime of an access token the identity provider issues
TokenLifetime == 1

(***************************************************************************)
(* Command lines clap lets through (arguments.rs, parse_arguments).        *)
(***************************************************************************)
Matches(cmd, res, id, app, data, url_ok) ==
  [cmd |-> cmd, res |-> res, id |-> id, app |-> app, data |-> data, url_ok |-> url_ok]
OptData(verb) == IF verb = "create" THEN {None} \cup {Some(d) : d \in DataTexts} ELSE {None}
OptApp == {None} \cup {Some(a) : a \in Apps}
Invocations ==
  {Matches("login", "", "", None, None, u) : u \in BOOLEAN}
  \cup {Matches(c, "", "", None, None, TRUE) : c \in {"token", "version"}}
  \cup {Matches("send", "device", i, a, None, TRUE) : i \in Ids, a \in OptApp}
  \cup UNION {
       {Matches(v, "", "", None, None, TRUE)}
       \cup {Matches(v, "app", i, None, d, TRUE) : i \in Ids, d \in OptData(v)}
       \cup UNION {{Matches(v, "device", i, a, d, TRUE) : i \in Ids, a \in OptApp}
                   : d \in OptData(v)}
       : v \in Verbs}

\* Option<&str> of the --app argument
value_of_app(m) == m.app
\* arguments.rs get_app_id: the flag, else the default app, else an error
get_app_id(m, cfg) ==
  IF value_of_app(m).some THEN [ok |-> TRUE, v |-> value_of_app(m).v]
  ELSE IF cfg.default_app.some THEN [ok |-> TRUE, v |-> cfg.default_app.v]
  ELSE [ok |-> FALSE, msg |-> "missing_app"]

(***************************************************************************)
(* Configurations and tokens.                                              *)
(***************************************************************************)
AccessToken(id, exp) == [id |-> id, exp |-> exp]
Token(access, refresh) == [access |-> access, refresh |-> refresh]
Config(url, token, app) == [registry_url |-> url, token |-> token, default_app |-> app]
StoredConfigs ==
  {None} \cup
  {Some(Config(Base, Token(AccessToken(1, e), r), d)) :
     e \in {0, 1, MaxTime + 1}, r \in BOOLEAN, d \in {None, Some("a2")}}

\* openid::verify_token_validity: the outcomes it can return for cfg at time t
Expired(tok, t) == tok.access.exp <= t
verify_token_validity(cfg, t, n) ==
  IF ~Expired(cfg.token, t) THEN {[ok |-> TRUE, refreshed |-> FALSE, v |-> cfg]}
  ELSE IF cfg.token.refresh
    THEN {[ok |-> TRUE, refreshed |-> TRUE,
           v |-> Config(cfg.registry_url,
                        Token(AccessToken(n + 1, t + TokenLifetime), TRUE),
                        cfg.default_app)],
          [ok |-> FALSE, refreshed |-> TRUE]}
    ELSE {[ok |-> FALSE, refreshed |-> FALSE]}

(***************************************************************************)
(* Urls and the registry.                                                  *)
(***************************************************************************)
\* the item path built from the device id alone
craft_url_by_device(base, app_id, device_id) == <<base, "api/v1/devices/", device_id>>
\* devices.rs craft_url
craft_url(base, app_id, device_id) == <<base, "api/v1/apps/", app_id, "/devices/", device_id>>
\* devices.rs create: the collection url
devices_url(base, app_id) == <<base, "api/v1/apps/", app_id, "/devices">>
apps_item_url(base, id) == <<base, "api/v1/apps/", id>>
apps_url(base) == <<base, "api/v1/apps">>
ItemUrls == {craft_url(Base, a, i) : a \in Apps, i \in Ids} \cup {apps_item_url(Base, i) : i \in Ids}

\* the name a create body gives its resource, None when it gives none
BodyNameOf(r) ==
  IF r.ok /\ r.v.t = "obj" /\ "metadata" \in DOMAIN r.v.f
     /\ r.v.f["metadata"].t = "obj" /\ "name" \in DOMAIN r.v.f["metadata"].f
     /\ r.v.f["metadata"].f["name"].t = "str"
  THEN Some(r.v.f["metadata"].f["name"].s) ELSE None
BodyName(body) == BodyNameOf(from_str(body))
\* the item a request is about
TargetOf(method, url, name) ==
  IF method # "POST" THEN Some(url)
  ELSE IF ~name.some THEN None
  ELSE IF Len(url) = 2 THEN Some(apps_item_url(url[1], name.v))
  ELSE Some(craft_url(url[1], url[3], name.v))
Target(req) == TargetOf(req.method, req.url, BodyName(req.body))
\* the status the registry answers with
StatusAt(req, reg, t, tg) ==
  IF req.token.exp <= t THEN 401
  ELSE IF ~tg.some \/ tg.v \notin DOMAIN reg THEN 400
  ELSE CASE req.method = "POST" -> IF reg[tg.v].some THEN 409 ELSE 201
         [] req.method = "GET" -> IF reg[tg.v].some THEN 200 ELSE 404
         [] req.method = "PUT" ->
              IF ~reg[tg.v].some THEN 404
              ELSE IF req.if_match.some /\ req.if_match.v # reg[tg.v].v THEN 412
              ELSE 204
         [] req.method = "DELETE" -> IF reg[tg.v].some THEN 204 ELSE 404
\* the answer and the registry after it served the request
Served(req, reg, tg, st) ==
  [status |-> st,
   body |-> IF st = 200 THEN reg[tg.v].v ELSE <<>>,
   registry |-> IF st \notin {201, 204} THEN reg
                ELSE IF req.method = "DELETE" THEN [reg EXCEPT ![tg.v] = None]
                ELSE [reg EXCEPT ![tg.v] = Some(req.body)]]
ServedAt(req, reg, t, tg) == Served(req, reg, tg, StatusAt(req, reg, t, tg))
Serve(req, reg, t) == ServedAt(req, reg, t, Target(req))

(***************************************************************************)
(* Collaborators of main that live outside main.rs and devices.rs.         *)
(***************************************************************************)
\* config::load_config and config::save_config
load_config(file) == IF file.some THEN [ok |-> TRUE, v |-> file.v] ELSE [ok |-> FALSE]
save_config(cfg) == Some(cfg)
\* openid::login: the outcomes of the interactive login at time t
login(url, t, n) ==
  {[ok |-> TRUE, v |-> Config(url, Token(AccessToken(n + 1, t + TokenLifetime), TRUE), None)],
   [ok |-> FALSE]}
\* util::print_version: it prints and ends the process
print_version(rst_config) == Some(ExitOk)
\* util::json_parse of the --data argument
json_parse(data) == from_str(IF data.some THEN data.v ELSE <<"{", "}">>)
\* util::print_result: None when it returns, Some(code) when it ends the process
print_result(status) == IF status \in 200..299 THEN None ELSE Some(ExitCrud)
\* util::editor: what the user leaves in the editor, parsed
Captured(t, r) ==
  IF r.ok THEN [ok |-> TRUE, v |-> r.v, text |-> t]
  ELSE [ok |-> FALSE, err |-> "invalid_payload", text |-> t]
editor(original) ==
  {[ok |-> FALSE, err |-> "editor_failed", text |-> <<>>]}
  \cup {Captured(t, from_str(t)) : t \in {original, EditedText, BrokenText}}

(***************************************************************************)
(* Decisions of main and of the device handlers.                           *)
(***************************************************************************)
Verbs_from_str(s) == IF s \in Verbs THEN [ok |-> TRUE, v |-> s] ELSE [ok |-> FALSE]
Resources_from_str(s) == IF s \in Resources THEN [ok |-> TRUE, v |-> s] ELSE [ok |-> FALSE]
\* the returned record dropped, the loaded one kept
MainConfigAfterVerifyStale(old, returned) == old
\* main.rs 47: config = openid::verify_token_validity(config)?
MainConfigAfterVerify(old, returned) == returned
\* main.rs 75, 99, 124, 149: command.unwrap().value_of(Resources::app), then unwrapped
MainAppId(m, cfg) == value_of_app(m)
\* main.rs 69-72 and its repetitions: a handler's Err ends the process
MainOnHandlerErr == ExitCrud
\* the token looked at again before each request, a newer one sent once it expired
BearerOfRevalidated(cfg) ==
  IF cfg.token.access.exp <= now
  THEN AccessToken(cfg.token.access.id + 1, now + TokenLifetime)
  ELSE cfg.token.access
\* devices.rs 21, 51, 91, 104: bearer_auth(config.token.access_token().secret())
BearerOf(cfg) == cfg.token.access
\* the payload merged into the body instead of nested under spec
CreateBodyMerged(device_id, data, app_id) ==
  Obj([k \in {"metadata", "spec"} \cup DOMAIN data.f |->
         IF k \in DOMAIN data.f THEN data.f[k]
         ELSE IF k = "spec" THEN data
         ELSE Obj([name |-> Str(device_id), application |-> Str(app_id)])])
\* devices.rs 40-46
CreateBody(device_id, data, app_id) ==
  Obj([metadata |-> Obj([name |-> Str(device_id), application |-> Str(app_id)]),
       spec |-> data])
AppsCreateBody(id, data) == Obj([metadata |-> Obj([name |-> Str(id)]), spec |-> data])
\* any answer but an authorization failure taken as a success
EditProceedsLax(status) == status # 401
\* a missing item taken as an empty one to edit
EditProceedsOnNotFound(status) == status \in {200, 404}
\* the status of the read never looked at
EditProceedsAlways(status) == TRUE
\* devices.rs 62-63: the arm of edit that goes on to the editor
EditProceeds(status) == status = 200
\* the read's failure reported with the code of a failed handler
EditFetchFailedAsCrud == ExitCrud
\* devices.rs 73-81: the exit of edit when the read did not return 200
EditFetchFailed == ExitFetch
\* the editor's error replaced by a default value
InsertOfDefault(r) == IF r.ok THEN Some(r.v) ELSE Some(EmptyObj)
\* devices.rs 65: let insert = util::editor(body)?
InsertOf(r) == IF r.ok THEN Some(r.v) ELSE None
\* devices.rs 67: put(...).unwrap()
EditPutFailed == ExitPanic
\* the update sent without its body
PutBodyMissing(data) == <<>>
\* devices.rs 110: body(data.to_string())
PutBody(data) == to_string(data)
\* the update made conditional on the body that was read
PutPreconditionIfMatch(body) == Some(body)
\* devices.rs 106-111: the update carries no version or etag of what was read
PutPrecondition(body) == None
\* the new configuration merged into the stored one
LoginStoredMerged(prior, returned) ==
  IF prior.some THEN Some([returned EXCEPT !.default_app = prior.v.default_app])
  ELSE Some(returned)
\* main.rs 29-32: the configuration login returned is saved as a whole
LoginStored(prior, returned) == save_config(returned)

Running == exit_code = None
Exit(code, msg) == exit_code' = Some(code) /\ stderr' = msg /\ pc' = "exited"
Stay == UNCHANGED <<exit_code, stderr>>
Request(method, url, body) ==
  [e |-> "request", method |-> method, url |-> url, token |-> BearerOf(config.v),
   body |-> body, if_match |-> None]
\* the request made conditional on the version the registry holds
Conditional(req, pre) == [req EXCEPT !.if_match = pre]
Response(st) == [e |-> "response", status |-> st]
TransportError == [e |-> "transport_error"]
Report(verb) == [e |-> "report", verb |-> verb]

Init ==
  /\ stored \in StoredConfigs
  /\ registry \in {[u \in ItemUrls |-> None], [u \in ItemUrls |-> Some(Doc0)]}
  /\ now = 0 /\ issued = 1 /\ ext = 0
  /\ args \in Invocations
  /\ pc = "start" /\ config = None /\ verified = [st |-> "none"] /\ call = None
  /\ fetched = None /\ insert = None /\ trace = <<>>
  /\ exit_code = None /\ stderr = ""

(***************************************************************************)
(* main.rs                                                                 *)
(***************************************************************************)
\* main.rs 25-34
Login ==
  /\ pc = "start" /\ args.cmd = "login"
  /\ IF ~args.url_ok
     THEN Exit(ExitMainErr, "invalid_url") /\ UNCHANGED <<config, stored, issued, trace>>
     ELSE \E r \in login(Base, now, issued) :
            /\ trace' = Append(trace, [e |-> "login"])
            /\ IF r.ok
               THEN /\ config' = Some(r.v) /\ stored' = LoginStored(stored, r.v)
                    /\ issued' = issued + 1 /\ Exit(ExitOk, "")
               ELSE Exit(ExitMainErr, "login_error") /\ UNCHANGED <<config, stored, issued>>
  /\ UNCHANGED <<registry, now, ext, args, verified, call, fetched, insert>>

\* main.rs 36-45
LoadConfig ==
  /\ pc = "start" /\ args.cmd # "login"
  /\ LET rst_config == load_config(stored) IN
     IF args.cmd = "version" /\ print_version(rst_config).some
       THEN Exit(print_version(rst_config).v, "") /\ UNCHANGED config
     ELSE IF ~rst_config.ok THEN Exit(ExitMainErr, "config_error") /\ UNCHANGED config
     ELSE config' = Some(rst_config.v) /\ pc' = "loaded" /\ Stay
  /\ UNCHANGED <<stored, registry, now, issued, ext, args, verified, call, fetched,
                 insert, trace>>

\* main.rs 47
VerifyToken ==
  /\ pc = "loaded"
  /\ \E r \in verify_token_validity(config.v, now, issued) :
       /\ trace' = (IF r.refreshed THEN Append(trace, [e |-> "refresh"]) ELSE trace)
                     \o <<[e |-> "verify", ok |-> r.ok]>>
       /\ IF r.ok
          THEN /\ config' = Some(MainConfigAfterVerify(config.v, r.v))
               /\ verified' = [st |-> "ok", v |-> r.v]
               /\ stored' = IF r.refreshed THEN save_config(r.v) ELSE stored
               /\ issued' = IF r.refreshed THEN issued + 1 ELSE issued
               /\ pc' = "validated" /\ Stay
          ELSE /\ verified' = [st |-> "err"]
               /\ Exit(ExitMainErr, "auth_error")
               /\ UNCHANGED <<config, stored, issued>>
  /\ UNCHANGED <<registry, now, ext, args, call, fetched, insert>>

\* main.rs 49-52
PrintToken ==
  /\ pc = "validated" /\ args.cmd = "token"
  /\ Exit(ExitOk, "")
  /\ UNCHANGED <<stored, registry, now, issued, ext, args, config, verified, call,
                 fetched, insert, trace>>

\* main.rs 54-160: the router, up to the call of a handler
Route ==
  /\ pc = "validated" /\ args.cmd # "token"
  /\ LET verb == Verbs_from_str(args.cmd)
         command == IF args.res = "" THEN None ELSE Some(args)
         data == json_parse(args.data)
         resource == Resources_from_str(args.res)
         app_id == MainAppId(args, config.v)
     IN IF ~verb.ok
          THEN Exit(ExitMainErr, "unknown_command") /\ UNCHANGED <<call, trace>>
        ELSE IF ~command.some
          THEN Exit(ExitPanic, "panic") /\ UNCHANGED <<call, trace>>
        ELSE IF verb.v = "create" /\ ~data.ok
          THEN Exit(ExitMainErr, "invalid_json") /\ UNCHANGED <<call, trace>>
        ELSE IF ~resource.ok
          THEN Exit(ExitMainErr, "unknown_resource") /\ UNCHANGED <<call, trace>>
        ELSE IF resource.v = "device" /\ ~app_id.some
          THEN Exit(ExitPanic, "panic") /\ UNCHANGED <<call, trace>>
        ELSE /\ call' = Some([res |-> resource.v, verb |-> verb.v, id |-> args.id,
                              app |-> IF resource.v = "device" THEN app_id.v ELSE "",
                              data |-> IF verb.v = "create" THEN data.v ELSE EmptyObj])
             /\ trace' = Append(trace, [e |-> "handler", res |-> resource.v, verb |-> verb.v])
             /\ pc' = "handler" /\ Stay
  /\ UNCHANGED <<stored, registry, now, issued, ext, args, config, verified, fetched, insert>>

(***************************************************************************)
(* The handlers.  A handler that returns Ok lets main return Ok(()); a     *)
(* handler that returns Err ends the process in main's map_err.            *)
(***************************************************************************)
HandlerIs(res, verb) == pc = "handler" /\ call.v.res = res /\ call.v.verb = verb

\* what follows print_result: Ok(()) up to the end of main, or its exit
Reported(pr) == IF pr.some THEN Exit(pr.v, "server_error") ELSE Exit(ExitOk, "")
Answered(req, verb, s) ==
  /\ trace' = trace \o <<req, Response(s.status), Report(verb)>>
  /\ registry' = s.registry
  /\ Reported(print_result(s.status))

\* delete, read and create: one request, then print_result
SimpleCall(req, verb) ==
  \E delivered \in BOOLEAN :
    IF ~delivered
    THEN /\ trace' = trace \o <<req, TransportError>>
         /\ registry' = registry
         /\ Exit(MainOnHandlerErr, "transport_error")
    ELSE Answered(req, verb, Serve(req, registry, now))

\* edit, lines 60-64 and 73-81: the read and what follows from its status
Fetched(req, s) ==
  /\ trace' = trace \o <<req, Response(s.status)>>
  /\ IF EditProceeds(s.status)
     THEN \E body \in {s.body, <<"{", "}">>} :
            fetched' = Some(body) /\ pc' = "editor" /\ Stay
     ELSE Exit(EditFetchFailed, "fetch_error") /\ UNCHANGED fetched
EditFetch(req) ==
  \E delivered \in BOOLEAN :
    IF ~delivered
    THEN /\ trace' = trace \o <<req, TransportError>>
         /\ Exit(EditFetchFailed, "fetch_error") /\ UNCHANGED fetched
    ELSE Fetched(req, Serve(req, registry, now))

\* edit, line 65: the editor runs and its result is taken or propagated
Edited(r, ins) ==
  /\ trace' = Append(trace, [e |-> "editor", text |-> r.text, ok |-> r.ok])
  /\ IF ins.some
     THEN insert' = ins /\ pc' = "submit" /\ Stay
     ELSE Exit(MainOnHandlerErr, r.err) /\ UNCHANGED insert
EditEditor == \E r \in editor(fetched.v) : Edited(r, InsertOf(r))

\* edit, lines 66-71: the update and its report
EditSubmit(req, verb) ==
  \E delivered \in BOOLEAN :
    IF ~delivered
    THEN /\ trace' = trace \o <<req, TransportError>>
         /\ registry' = registry
         /\ Exit(EditPutFailed, "panic")
    ELSE Answered(req, verb, Serve(req, registry, now))

\* a handler that keeps the app it was given as the stored default
HandlerFrameSavingApp ==
  /\ stored' = IF call.v.res = "device"
                THEN save_config([config.v EXCEPT !.default_app = Some(call.v.app)])
                ELSE stored
  /\ UNCHANGED <<now, issued, ext, args, config, verified, call>>
\* devices.rs 15-83: the handlers borrow the configuration and never save it
HandlerFrame == UNCHANGED <<stored, now, issued, ext, args, config, verified, call>>

\* devices.rs 15-25
DevicesDelete ==
  /\ HandlerIs("device", "delete")
  /\ SimpleCall(Request("DELETE", craft_url(config.v.registry_url, call.v.app, call.v.id), <<>>),
                "delete")
  /\ HandlerFrame /\ UNCHANGED <<fetched, insert>>

\* devices.rs 27-30 and 85-94
DevicesRead ==
  /\ HandlerIs("device", "get")
  /\ SimpleCall(Request("GET", craft_url(config.v.registry_url, call.v.app, call.v.id), <<>>),
                "get")
  /\ HandlerFrame /\ UNCHANGED <<fetched, insert>>

\* devices.rs 32-56
DevicesCreate ==
  /\ HandlerIs("device", "create")
  /\ SimpleCall(Request("POST", devices_url(config.v.registry_url, call.v.app),
                        to_string(CreateBody(call.v.id, call.v.data, call.v.app))),
                "create")
  /\ HandlerFrame /\ UNCHANGED <<fetched, insert>>

\* devices.rs 58-64, 73-82
DevicesEditFetch ==
  /\ HandlerIs("device", "edit")
  /\ EditFetch(Request("GET", craft_url(config.v.registry_url, call.v.app, call.v.id), <<>>))
  /\ HandlerFrame /\ UNCHANGED <<registry, insert>>

\* devices.rs 65
DevicesEditEditor ==
  /\ pc = "editor" /\ call.v.res = "device"
  /\ EditEditor
  /\ HandlerFrame /\ UNCHANGED <<registry, fetched>>

\* devices.rs 66-71 and 96-116
DevicesEditSubmit ==
  /\ pc = "submit" /\ call.v.res = "device"
  /\ EditSubmit(Conditional(Request("PUT",
                                    craft_url(config.v.registry_url, call.v.app, call.v.id),
                                    PutBody(insert.v)),
                            PutPrecondition(fetched.v)), "edit")
  /\ HandlerFrame /\ UNCHANGED <<fetched, insert>>

\* the handlers of apps.rs
AppsDelete ==
  /\ HandlerIs("app", "delete")
  /\ SimpleCall(Request("DELETE", apps_item_url(config.v.registry_url, call.v.id), <<>>), "delete")
  /\ HandlerFrame /\ UNCHANGED <<fetched, insert>>

AppsRead ==
  /\ HandlerIs("app", "get")
  /\ SimpleCall(Request("GET", apps_item_url(config.v.registry_url, call.v.id), <<>>), "get")
  /\ HandlerFrame /\ UNCHANGED <<fetched, insert>>

AppsCreate ==
  /\ HandlerIs("app", "create")
  /\ SimpleCall(Request("POST", apps_url(config.v.registry_url),
                        to_string(AppsCreateBody(call.v.id, call.v.data))),
                "create")
  /\ HandlerFrame /\ UNCHANGED <<fetched, insert>>

AppsEditFetch ==
  /\ HandlerIs("app", "edit")
  /\ EditFetch(Request("GET", apps_item_url(config.v.registry_url, call.v.id), <<>>))
  /\ HandlerFrame /\ UNCHANGED <<registry, insert>>

AppsEditEditor ==
  /\ pc = "editor" /\ call.v.res = "app"
  /\ EditEditor
  /\ HandlerFrame /\ UNCHANGED <<registry, fetched>>

AppsEditSubmit ==
  /\ pc = "submit" /\ call.v.res = "app"
  /\ EditSubmit(Request("PUT", apps_item_url(config.v.registry_url, call.v.id),
                        PutBody(insert.v)), "edit")
  /\ HandlerFrame /\ UNCHANGED <<fetched, insert>>

(***************************************************************************)
(* The world around the invocation.                                        *)
(***************************************************************************)
InvocationFrame ==
  UNCHANGED <<args, pc, config, verified, call, fetched, insert, exit_code, stderr>>

\* time passes while the process runs
Tick ==
  /\ Running /\ now < MaxTime
  /\ now' = now + 1
  /\ UNCHANGED <<stored, registry, issued, ext, trace>> /\ InvocationFrame

\* the item the command line is about: the only one whose state the
\* invocation's requests depend on
Addressed(a) ==
  IF a.res = "device" /\ a.app.some THEN {craft_url(Base, a.app.v, a.id)}
  ELSE IF a.res = "app" THEN {apps_item_url(Base, a.id)}
  ELSE {}
\* another client of the registry replaces or deletes the item; the trace
\* notes when, relative to what the invocation did
ExternalModify ==
  /\ Running /\ ext < MaxExternal
  /\ \E u \in Addressed(args), d \in {None, Some(Doc1)} :
       /\ registry[u] # d
       /\ registry' = [registry EXCEPT ![u] = d]
       /\ trace' = Append(trace, [e |-> "external", url |-> u, doc |-> d])
  /\ ext' = ext + 1
  /\ UNCHANGED <<stored, now, issued>> /\ InvocationFrame

Next ==
  \/ Login \/ LoadConfig \/ VerifyToken \/ PrintToken \/ Route
  \/ DevicesDelete \/ DevicesRead \/ DevicesCreate
  \/ DevicesEditFetch \/ DevicesEditEditor \/ DevicesEditSubmit
  \/ AppsDelete \/ AppsRead \/ AppsCreate
  \/ AppsEditFetch \/ AppsEditEditor \/ AppsEditSubmit
  \/ Tick \/ ExternalModify

Spec == Init /\ [][Next]_vars
(***************************************************************************)
(* Reading the trace of an invocation.                                     *)
(***************************************************************************)
IsRequest(i) == trace[i].e = "request"
IsMethod(i, m) == IsRequest(i) /\ trace[i].method = m
IsNetwork(i) == trace[i].e \in {"request", "refresh"}
\* the answer to the request at i: a status, or -1 for a transport failure
AnswerOf(i) == IF trace[i + 1].e = "response" THEN trace[i + 1].status ELSE -1
LastOf(url) == url[Len(url)]
DeviceOp == args.cmd \in Verbs /\ args.res = "device"
\* main has been through the router
RouterPassed == verified.st = "ok" /\ pc # "validated" /\ args.cmd # "token"

\* C1: every resource request is sent after token validation succeeded, after
\* any refresh exchange, and carries the access token of the record that
\* validation returned; after a failed validation no request is sent.
C1_RequestsCarryValidatedToken ==
  /\ \A i \in DOMAIN trace : IsRequest(i) =>
       /\ verified.st = "ok"
       /\ trace[i].token = verified.v.token.access
       /\ \A j \in DOMAIN trace : trace[j].e = "refresh" => j < i
  /\ verified.st = "err" => \A i \in DOMAIN trace : ~IsRequest(i)
\* a request sent after a refresh replaced the loaded token
C1_Witness ==
  /\ Len(trace) >= 3 /\ trace[1].e = "refresh"
  /\ \E i \in DOMAIN trace : IsRequest(i) /\ trace[i].token.id = 2

\* C2 (as claimed): a device operation with neither --app nor default_app
\* makes no network call at any point of the invocation, and once the router
\* has been reached it has ended with a non-zero exit and a missing-app
\* message.
C2_MissingAppFailsBeforeNetwork ==
  (DeviceOp /\ ~args.app.some /\ config.some /\ ~config.v.default_app.some) =>
     /\ \A i \in DOMAIN trace : ~IsNetwork(i)
     /\ RouterPassed => (exit_code.some /\ exit_code.v # ExitOk /\ stderr = "missing_app")

\* C3 (as claimed): past the router, a device operation whose app id resolves
\* (the flag, else default_app) reaches its handler with that app id, and its
\* requests are about that app.
C3_AppIdResolution ==
  (DeviceOp /\ RouterPassed /\ json_parse(args.data).ok /\ get_app_id(args, config.v).ok) =>
     /\ call.some /\ call.v.app = get_app_id(args, config.v).v
     /\ \A i \in DOMAIN trace : IsRequest(i) => trace[i].url[3] = get_app_id(args, config.v).v

\* C4: a PUT for an id is sent only after a GET for the same id, earlier in
\* the same invocation, was answered with status 200.
C4_PutOnlyAfterGet200 ==
  \A i \in DOMAIN trace : IsMethod(i, "PUT") =>
    \E j \in 1..(i - 1) :
      /\ IsMethod(j, "GET") /\ LastOf(trace[j].url) = LastOf(trace[i].url)
      /\ AnswerOf(j) = 200
C4_Witness ==
  \E i \in DOMAIN trace : IsMethod(i, "PUT") /\ args.res = "device"

\* C5: in edit, a read answered with another status than 200, or not
\* answered, ends the process with exit code 2: the read is the last thing
\* the invocation did, so no editor, no update and no second read follow.
C5_FetchFailureIsFatal ==
  \A i \in DOMAIN trace :
    (call.some /\ call.v.verb = "edit" /\ IsMethod(i, "GET") /\ AnswerOf(i) # 200) =>
      /\ exit_code = Some(ExitFetch)
      /\ Len(trace) = i + 1
      /\ \A j \in DOMAIN trace : j # i => ~IsRequest(j) /\ trace[j].e # "editor"
C5_Witness ==
  /\ call.some /\ call.v.verb = "edit" /\ call.v.res = "device"
  /\ \E i \in DOMAIN trace : IsMethod(i, "GET") /\ AnswerOf(i) = 404
  /\ exit_code = Some(ExitFetch)

\* C6: in edit, when the text captured from the editor is no JSON, the
\* editor is the last thing the invocation did: no PUT is sent, the process
\* ends with the error reported and without a panic, and the invocation has
\* sent nothing that changes the registry.
C6_InvalidPayloadSendsNoUpdate ==
  \A i \in DOMAIN trace :
    (trace[i].e = "editor" /\ trace[i].text # <<>> /\ ~from_str(trace[i].text).ok) =>
      /\ Len(trace) = i
      /\ \A j \in DOMAIN trace : IsRequest(j) => trace[j].method = "GET"
      /\ exit_code.some /\ exit_code.v \notin {ExitOk, ExitPanic}
      /\ stderr = "invalid_payload"
C6_Witness ==
  /\ call.some /\ call.v.res = "device" /\ exit_code.some
  /\ \E i \in DOMAIN trace : trace[i].e = "editor" /\ trace[i].text = BrokenText

\* C7 (as claimed): a (verb, resource) pair of the closed set reaches exactly
\* one handler; any other command that reaches the router is rejected with an
\* error before any network call was made.
C7_Routing ==
  /\ (RouterPassed /\ args.cmd \in Verbs /\ args.res \in Resources
      /\ json_parse(args.data).ok /\ (args.res = "device" => args.app.some)) =>
        Cardinality({i \in DOMAIN trace : trace[i].e = "handler"}) = 1
  /\ (RouterPassed /\ ~(args.cmd \in Verbs /\ args.res \in Resources)) =>
        /\ exit_code.some /\ exit_code.v # ExitOk
        /\ \A i \in DOMAIN trace : ~IsNetwork(i)

\* the primary call of a create, delete or get on a device: its one request
IsPrimary(i) == IsRequest(i) /\ DeviceOp /\ args.cmd # "edit"
\* C8 (as claimed), for create, delete and get on a device: exit code 3
\* exactly when the registry answered the primary call with a status outside
\* 2xx, exit code 0 when it answered 201, and exit code 2 when the primary
\* call got no answer.
C8_ExitThreeIffServerRejected ==
  /\ (exit_code = Some(ExitCrud) /\ DeviceOp /\ args.cmd # "edit") =>
       \E i \in DOMAIN trace : IsPrimary(i) /\ AnswerOf(i) >= 0 /\ AnswerOf(i) \notin 200..299
  /\ \A i \in DOMAIN trace : (IsPrimary(i) /\ AnswerOf(i) >= 0 /\ AnswerOf(i) \notin 200..299)
       => exit_code = Some(ExitCrud)
  /\ \A i \in DOMAIN trace : (IsPrimary(i) /\ AnswerOf(i) = 201) => exit_code = Some(ExitOk)
  /\ \A i \in DOMAIN trace : (IsPrimary(i) /\ AnswerOf(i) = -1) => exit_code = Some(ExitFetch)

\* C9 (as claimed): when the configuration cannot be loaded or the token
\* validation fails, the invocation ends with exit code 2 and has sent no
\* resource request.
C9_PreflightFailureExitsTwo ==
  (stderr \in {"config_error", "auth_error"}) =>
     /\ exit_code = Some(ExitFetch)
     /\ \A i \in DOMAIN trace : ~IsRequest(i)

\* C10: create device sends a POST to the device collection of the app, and
\* its body parses to the object {metadata: {name: id, application: app},
\* spec: payload} with the payload as given.
C10_CreateDeviceBody ==
  \A i \in DOMAIN trace :
    (DeviceOp /\ args.cmd = "create" /\ IsRequest(i)) =>
      /\ trace[i].method = "POST"
      /\ trace[i].url = <<Base, "api/v1/apps/", args.app.v, "/devices">>
      /\ from_str(trace[i].body).ok
      /\ from_str(trace[i].body).v =
           Obj([metadata |-> Obj([name |-> Str(args.id), application |-> Str(args.app.v)]),
                spec |-> json_parse(args.data).v])
C10_Witness ==
  /\ DeviceOp /\ args.cmd = "create" /\ args.data = Some(DataMeta)
  /\ \E i \in DOMAIN trace : IsMethod(i, "POST") /\ AnswerOf(i) = 201

\* an edit whose editor gave back the text that was read, and its update
NoOpEdit(i, j) ==
  /\ trace[i].e = "editor" /\ fetched.some /\ trace[i].text = fetched.v
  /\ j > i /\ IsMethod(j, "PUT")
\* C11 (as claimed): when the editor returns the text that was read
\* unchanged, the body of the update is byte for byte the text that was read.
C11_NoOpEditSameBytes ==
  \A i, j \in DOMAIN trace : NoOpEdit(i, j) => trace[j].body = fetched.v
\* C11 (amended): when the editor returns the text that was read unchanged,
\* the body of the update is the compact serialisation of the value that
\* text parses to: it parses to the same value, and it is byte for byte the
\* text that was read exactly when that text is already in that form.
C11_NoOpEditSameValue ==
  \A i, j \in DOMAIN trace : NoOpEdit(i, j) =>
    /\ from_str(trace[j].body).ok
    /\ from_str(trace[j].body).v = from_str(fetched.v).v
    /\ trace[j].body = to_string(from_str(fetched.v).v)
\* the registry's body had blanks and its own key order; the update has not
C11_Witness ==
  /\ call.some /\ call.v.res = "device" /\ fetched = Some(Doc0)
  /\ \E i, j \in DOMAIN trace : NoOpEdit(i, j) /\ trace[j].body # Doc0

Requests == {i \in DOMAIN trace : IsRequest(i)}
Count(ev) == Cardinality({i \in DOMAIN trace : trace[i].e = ev})
\* a request that got no answer, or an answer outside 2xx
Failed(i) == IsRequest(i) /\ AnswerOf(i) \notin 200..299
\* C12: an invocation makes at most one token validation and at most one
\* refresh exchange; a create, delete or get handler that has ended sent
\* exactly one resource request; an edit that ended well sent exactly two, a
\* GET and then a PUT; a failed request is the last request of the
\* invocation, so nothing is sent again and nothing is sent to make up for it.
C12_CallsBoundedNoRetry ==
  /\ Count("verify") <= 1 /\ Count("refresh") <= 1
  /\ Cardinality(Requests) <= 2
  /\ (call.some /\ call.v.verb \in {"create", "delete", "get"} /\ pc = "exited") =>
        Cardinality(Requests) = 1
  /\ (call.some /\ call.v.verb = "edit" /\ exit_code = Some(ExitOk)) =>
        \E i, j \in DOMAIN trace :
          /\ Requests = {i, j} /\ i < j
          /\ IsMethod(i, "GET") /\ IsMethod(j, "PUT")
  /\ \A i, j \in DOMAIN trace : (Failed(i) /\ j > i) => ~IsRequest(j)
\* an edit whose update the registry refused: the invocation ends there
C12_Witness ==
  /\ call.some /\ call.v.res = "device" /\ call.v.verb = "edit" /\ pc = "exited"
  /\ \E i, j \in DOMAIN trace :
       /\ Requests = {i, j} /\ i < j /\ AnswerOf(i) = 200 /\ AnswerOf(j) = 404

\* C13: the stored configuration changes only in a login that ends with
\* exit code 0, where it becomes what login returned, or in the token
\* validation step when a refresh exchange took place; no handler, and
\* neither the token nor the version command, changes it, and a failed login
\* leaves it as it was.
C13_ConfigWriteFrame ==
  [][stored' # stored =>
       \/ /\ args.cmd = "login" /\ exit_code' = Some(ExitOk) /\ stored' = config'
       \/ /\ pc = "loaded" /\ Count("refresh")' = Count("refresh") + 1
          /\ stored' = Some(verified'.v)]_vars
\* a handler has run after a refresh rewrote the stored configuration, which
\* still is what the refresh wrote
C13_Witness ==
  /\ pc = "exited" /\ call.some /\ call.v.res = "device" /\ Requests # {}
  /\ Count("refresh") = 1 /\ stored = Some(verified.v) /\ stored.v.token.access.id = 2

\* C14: after a login that ended with exit code 0 the stored configuration
\* is the configuration login returned, whatever was stored before; saving
\* the same returned configuration once more leaves the same stored
\* configuration; the invocation never loaded or validated the prior
\* configuration and sent no resource request.
C14_LoginOverwrites ==
  (args.cmd = "login" /\ exit_code = Some(ExitOk)) =>
     /\ config.some /\ stored = Some(config.v)
     /\ LoginStored(stored, config.v) = stored
     /\ verified.st = "none" /\ Count("verify") = 0 /\ Count("refresh") = 0
     /\ Count("login") = 1 /\ Requests = {}
\* a login that replaced the stored token record by a newly issued one
C14_Witness ==
  /\ args.cmd = "login" /\ exit_code = Some(ExitOk)
  /\ stored.some /\ stored.v.token.access.id = 2 /\ stored.v.default_app = None

\* another client replaced the item between the read g of an edit and its
\* update p, and x is the last such change before p
ChangedBetween(g, x, p) ==
  /\ IsMethod(g, "GET") /\ IsMethod(p, "PUT") /\ trace[g].url = trace[p].url
  /\ AnswerOf(g) = 200 /\ g < x /\ x < p
  /\ trace[x].e = "external" /\ trace[x].url = trace[p].url /\ trace[x].doc.some
  /\ \A y \in (x + 1)..(p - 1) : trace[y].e = "external" => trace[y].url # trace[p].url
\* C15: when another client replaces the item after the read of an edit was
\* answered and before its update is sent, the update carries no version of
\* what was read, and, once it reaches the registry with a token that is
\* still valid, it is accepted: the item ends as the edited copy, the other
\* client's change is gone, and the invocation ends with exit code 0 and no
\* message.
C15_LostUpdate ==
  \A g, x, p \in DOMAIN trace :
    (call.some /\ call.v.res = "device" /\ ChangedBetween(g, x, p)) =>
      /\ trace[p].if_match = None
      /\ AnswerOf(p) \notin {-1, 401} =>
           /\ AnswerOf(p) = 204
           /\ registry[trace[p].url] = Some(trace[p].body)
           /\ registry[trace[p].url] # trace[x].doc
           /\ exit_code = Some(ExitOk) /\ stderr = ""
C15_Witness ==
  \E g, x, p \in DOMAIN trace :
    /\ call.some /\ call.v.res = "device" /\ ChangedBetween(g, x, p)
    /\ AnswerOf(p) = 204 /\ registry[trace[p].url] = Some(trace[p].body)
    /\ trace[x].doc = Some(Doc1) /\ exit_code = Some(ExitOk)

\* C16 (as claimed), for the commands main handles itself: an invocation
\* other than login and version that has ended has made exactly one token
\* validation.
C16_ValidationExactlyOnce ==
  (pc = "exited" /\ args.cmd \notin {"login", "version"}) => Count("verify") = 1
\* C16 (amended): token validation runs at most once per invocation, and
\* exactly once in every invocation that loaded a configuration and went on;
\* it comes before the first resource request and nothing of it (no
\* validation, no refresh exchange) comes after one, so all requests of an
\* invocation, the GET and the PUT of an edit included, carry the same access
\* token, also when it expires in between.
C16_ValidationOnceBeforeCalls ==
  /\ Count("verify") = (IF verified.st = "none" THEN 0 ELSE 1)
  /\ (pc \notin {"start", "loaded"} /\ args.cmd \notin {"login", "version"}
      /\ stderr # "config_error") => Count("verify") = 1
  /\ \A i \in Requests :
       /\ \E v \in 1..(i - 1) : trace[v].e = "verify" /\ trace[v].ok
       /\ \A j \in DOMAIN trace : trace[j].e \in {"verify", "refresh"} => j < i
       /\ \A j \in Requests : trace[j].token = trace[i].token
\* the token expired while the editor was open: the PUT carries the token of
\* the GET and is refused
C16_Witness ==
  /\ call.some /\ call.v.res = "device" /\ call.v.verb = "edit"
  /\ \E i, j \in Requests :
       /\ i < j /\ AnswerOf(i) = 200 /\ AnswerOf(j) = 401
       /\ trace[i].token = trace[j].token

\* where the steps of an edit are in the trace
Gets == {i \in Requests : trace[i].method = "GET"}
Puts == {i \in Requests : trace[i].method = "PUT"}
Editors == {i \in DOMAIN trace : trace[i].e = "editor"}
Reports == {i \in DOMAIN trace : trace[i].e = "report"}
\* C17: in an edit, the GET, the editor, the PUT and the report each happen
\* at most once and in this order: the editor runs only after the GET was
\* answered 200, the PUT is sent only after the editor ended and its text
\* was parsed, and the result is reported only after the PUT was answered.
C17_EditMovesForward ==
  (call.some /\ call.v.verb = "edit") =>
     /\ Cardinality(Gets) <= 1 /\ Cardinality(Editors) <= 1
     /\ Cardinality(Puts) <= 1 /\ Cardinality(Reports) <= 1
     /\ Requests = Gets \cup Puts
     /\ \A e \in Editors : \E g \in Gets : g < e /\ AnswerOf(g) = 200
     /\ \A p \in Puts : \E e \in Editors : e < p /\ trace[e].ok
     /\ \A r \in Reports : \E p \in Puts : p < r /\ AnswerOf(p) >= 0
     /\ (pc = "editor") => (Gets # {} /\ Editors = {})
     /\ (pc = "submit") => (Editors # {} /\ Puts = {})
\* an edit that went through all four steps
C17_Witness ==
  /\ call.some /\ call.v.res = "device" /\ call.v.verb = "edit" /\ pc = "exited"
  /\ \E g \in Gets, e \in Editors, p \in Puts, r \in Reports : g < e /\ e < p /\ p < r

\* C18 (as claimed), for the operations on a device: an invocation that has
\* ended has ended with exit code 0, 2 or 3.
C18_ExitCodesZeroTwoThree ==
  (DeviceOp /\ exit_code.some) => exit_code.v \in {ExitOk, ExitFetch, ExitCrud}

\* C19: every request of a device operation is about the app and the device
\* the handler was called with, the app being the one given with --app: get,
\* update and delete go to the item path built from both, create goes to the
\* collection path of the app, and the PUT of an edit goes to the path of
\* its GET.
C19_DeviceAddressedByAppAndId ==
  (DeviceOp /\ Requests # {}) =>
     /\ call.some /\ call.v.app = args.app.v /\ call.v.id = args.id
     /\ get_app_id(args, config.v).ok /\ call.v.app = get_app_id(args, config.v).v
     /\ \A i \in Requests :
          IF trace[i].method = "POST"
          THEN trace[i].url = <<Base, "api/v1/apps/", call.v.app, "/devices">>
          ELSE trace[i].url = <<Base, "api/v1/apps/", call.v.app, "/devices/", call.v.id>>
     /\ \A g \in Gets, p \in Puts : trace[p].url = trace[g].url
\* an edit of device d2 of app a2 that sent both of its requests
C19_Witness ==
  /\ DeviceOp /\ args.app = Some("a2") /\ args.id = "d2"
  /\ \E g \in Gets, p \in Puts :
       g < p /\ trace[p].url = <<Base, "api/v1/apps/", "a2", "/devices/", "d2">>
====
